---- MODULE Spec2Model ----
(***************************************************************************)
(* Model of the VL53L5cx sensor facade (src/src/VL53L5cx.cpp).             *)
(*                                                                         *)
(* The facade object is the state.  Every public method is one action; the *)
(* vendor driver (ULD) is external, so each driver call is recorded in the *)
(* call log of the running method together with the status (and output)   *)
(* the driver answered, which is drawn nondeterministically.              *)
(* Debugger::reportForever never returns: the method stops where it is     *)
(* and the object accepts no further call.                                 *)
(***************************************************************************)
EXTENDS Integers, Sequences, FiniteSets

VARIABLES
    variant,                \* "VL53L5cx" or "VL53L5cxAutonomous" (dynamic type)
    _lpn_pin,
    _dev,                   \* [address]
    _resolution,
    _target_order,
    _ranging_frequency,
    _integration_time_msec, \* VL53L5cxAutonomous only (0 in the base class)
    _results,               \* VL53L5CX_ResultsData
    pc,                     \* "constructed", "running", "halted"
    op                      \* the most recent method call and what it did

vars == <<variant, _lpn_pin, _dev, _resolution, _target_order,
          _ranging_frequency, _integration_time_msec, _results, pc, op>>

config == <<variant, _lpn_pin, _dev, _resolution, _target_order,
            _ranging_frequency, _integration_time_msec>>

----------------------------------------------------------------------------
(* Bounds of the model *)

\* Frames the driver can hand out are FrameOf(0) .. FrameOf(MaxSeed).
MaxSeed == 2

\* Targets per zone the driver is built with (1 to 4 in the vendor header).
NbTargetPerZone == 2

----------------------------------------------------------------------------
(* Value domains *)

RESOLUTION_4X4 == "RESOLUTION_4X4"
RESOLUTION_8X8 == "RESOLUTION_8X8"
TARGET_ORDER_STRONGEST == "TARGET_ORDER_STRONGEST"
TARGET_ORDER_CLOSEST == "TARGET_ORDER_CLOSEST"

\* Driver codes the facade passes on.
VL53L5CX_RESOLUTION_4X4 == 16
VL53L5CX_RESOLUTION_8X8 == 64
VL53L5CX_TARGET_ORDER_CLOSEST == 1
VL53L5CX_TARGET_ORDER_STRONGEST == 2
VL53L5CX_RANGING_MODE_AUTONOMOUS == 3

UInt8 == 0 .. 255

\* Conversion to the uint8_t a method returns.
ToUint8(x) == x % 256

\* Status bytes a driver call can answer: OK, and an error code.
DriverStatus == {0, 255}

\* Ranging frequencies the main specification constructs the facade with:
\* the edges of both resolution limits (SpecSetup covers every uint8_t).
Frequencies == {0, 15, 16, 60, 61}

IntegrationTimes == {10, 20}

LpnPins == {14}
Addresses == {41}

----------------------------------------------------------------------------
(* One run of a method: the driver calls issued so far, and whether        *)
(* Debugger::reportForever was entered (with which message).               *)

NoMsg == "none"

NewRun == [halted |-> FALSE, msg |-> NoMsg, calls |-> <<>>]

\* A call into the driver (or the platform): skipped when the method has
\* already stopped in reportForever.
Call(r, name, args, status) ==
    IF r.halted THEN r
    ELSE [r EXCEPT !.calls = Append(@, [name |-> name, args |-> args,
                                         status |-> status])]

\* Debugger::reportForever(fmt, ...): reports and never returns.  Only the
\* format string is kept, not its arguments.
reportForever(r, msg) ==
    IF r.halted THEN r ELSE [r EXCEPT !.halted = TRUE, !.msg = msg]

MsgFrequency == "Ranging frequency for %s resolution must be at least 1 and no more than %d"
MsgNotDetected == "VL53L5CX not detected at requested address"
MsgLoading == "VL53L5CX ULD Loading failed"
MsgStart == "start error = 0x%02X"
MsgRangingMode == "vl53l5cx_set_ranging_mode failed, status %u"
MsgIntegrationTime == "vl53l5cx_get_integration_time_ms failed, status %u"
MsgMotionInit == "Motion indicator init failed with status : %u"
MsgMotionMin == "Motion indicator minimum distance must be at least 400mm"
MsgMotionMax == "Motion indicator maximum distance must be greater than minimum"
MsgMotionDelta == "Motion indicator maximum distance can be no greater than 1500mm above minimum distance"
MsgMotionSet == "Motion indicator set distance failed with status : %u"
MsgXtalk == "vl53l5cx_calibrate_xtalk failed, status %u"
MsgRange == "%s must be between %d and %d"

bozoFilter(r, cond, msg) == IF cond THEN reportForever(r, msg) ELSE r

checkStatus(r, error, fmt) == IF error # 0 THEN reportForever(r, fmt) ELSE r

\* Variant of rangeFilter that excludes the upper limit.
rangeFilter_ExclusiveMax(r, val, minval, maxval, valname) ==
    IF val < minval \/ val >= maxval
    THEN reportForever(r, MsgRange)
    ELSE r

rangeFilter(r, val, minval, maxval, valname) ==
    IF val < minval \/ val > maxval
    THEN reportForever(r, MsgRange)
    ELSE r

----------------------------------------------------------------------------
(* Setup *)

\* Variant of check_ranging_frequency without the lower limit.
check_ranging_frequency_NoLowerLimit(r, resolution, maxval) ==
    IF _ranging_frequency > maxval
    THEN reportForever(r, MsgFrequency)
    ELSE r

\* The resolution argument is not used by the body.
check_ranging_frequency(r, resolution, maxval) ==
    IF _ranging_frequency < 1 \/ _ranging_frequency > maxval
    THEN reportForever(r, MsgFrequency)
    ELSE r

\* d holds what the driver answers to each call of this run.
init(r, d) ==
    LET r1 == check_ranging_frequency(r, RESOLUTION_4X4, 60)
        r2 == check_ranging_frequency(r1, RESOLUTION_8X8, 15)
        r3 == Call(r2, "Reset_Sensor", <<_lpn_pin>>, 0)
        r4 == Call(r3, "vl53l5cx_is_alive", <<d.isAlive>>, d.alive)
        r5 == IF d.isAlive = 0 \/ d.alive # 0
              THEN reportForever(r4, MsgNotDetected) ELSE r4
        r6 == Call(r5, "vl53l5cx_init", <<>>, d.init)
        r7 == IF d.init # 0 THEN reportForever(r6, MsgLoading) ELSE r6
        r8 == Call(r7, "vl53l5cx_set_resolution",
                   <<IF _resolution = RESOLUTION_4X4
                     THEN VL53L5CX_RESOLUTION_4X4
                     ELSE VL53L5CX_RESOLUTION_8X8>>, d.resolution)
        r9 == Call(r8, "vl53l5cx_set_target_order",
                   <<IF _target_order = TARGET_ORDER_STRONGEST
                     THEN VL53L5CX_TARGET_ORDER_STRONGEST
                     ELSE VL53L5CX_TARGET_ORDER_CLOSEST>>, d.order)
    IN  r9

\* Variant of start_ranging that applies the configured frequency first.
start_ranging_PushFrequency(r, d) ==
    LET r1 == Call(r, "vl53l5cx_set_ranging_frequency_hz",
                   <<_ranging_frequency>>, 0)
    IN  checkStatus(Call(r1, "vl53l5cx_start_ranging", <<>>, d.start),
                    d.start, MsgStart)

start_ranging(r, d) ==
    checkStatus(Call(r, "vl53l5cx_start_ranging", <<>>, d.start), d.start,
                MsgStart)

VL53L5cx_begin(r, d) == start_ranging(init(r, d), d)

\* Variant of VL53L5cxAutonomous::begin that checks the integration-time
\* push like every other call.
VL53L5cxAutonomous_begin_CheckedPush(r, d) ==
    LET r1 == init(r, d)
        r2 == checkStatus(
                  Call(r1, "vl53l5cx_set_ranging_mode",
                       <<VL53L5CX_RANGING_MODE_AUTONOMOUS>>, d.mode), d.mode,
                  MsgRangingMode)
        r3 == checkStatus(
                  Call(r2, "vl53l5cx_set_integration_time_ms",
                       <<_integration_time_msec>>, d.integration),
                  d.integration, MsgIntegrationTime)
    IN  start_ranging(r3, d)

VL53L5cxAutonomous_begin(r, d) ==
    LET r1 == init(r, d)
        r2 == checkStatus(
                  Call(r1, "vl53l5cx_set_ranging_mode",
                       <<VL53L5CX_RANGING_MODE_AUTONOMOUS>>, d.mode), d.mode,
                  MsgRangingMode)
        r3 == Call(r2, "vl53l5cx_set_integration_time_ms",
                   <<_integration_time_msec>>, d.integration)
    IN  start_ranging(r3, d)

\* What the driver answers during one begin(); the base class issues no
\* ranging-mode and no integration-time call.
BeginAnswers ==
    [isAlive : {0, 1}, alive : DriverStatus, init : DriverStatus,
     resolution : DriverStatus, order : DriverStatus,
     mode : IF variant = "VL53L5cx" THEN {0} ELSE DriverStatus,
     integration : IF variant = "VL53L5cx" THEN {0} ELSE DriverStatus,
     start : DriverStatus]

\* The record of a finished (or halted) method call.
Done(name, args, r, ret) ==
    [name |-> name, args |-> args, calls |-> r.calls, msg |-> r.msg,
     ret |-> ret]

After(r) == IF r.halted THEN "halted" ELSE "running"

\* begin() is virtual: the object's dynamic type selects the body.
begin ==
    /\ pc = "constructed"
    /\ \E d \in BeginAnswers :
          LET r == IF variant = "VL53L5cx"
                   THEN VL53L5cx_begin(NewRun, d)
                   ELSE VL53L5cxAutonomous_begin(NewRun, d)
          IN  /\ op' = Done("begin", <<>>, r, 0)
              /\ pc' = After(r)
    /\ UNCHANGED <<config, _results>>

----------------------------------------------------------------------------
(* The result frame *)

NbZones == VL53L5CX_RESOLUTION_8X8

TargetIndexes == 0 .. (NbZones * NbTargetPerZone - 1)
ZoneIndexes == 0 .. (NbZones - 1)

\* A frame of ranging data as the driver writes it; the seed stands for the
\* scene.  Fields keep the width of their C type.
FrameOf(s) ==
    [target_status      |-> [i \in TargetIndexes |-> (5 * s + i) % 256],
     distance_mm        |-> [i \in TargetIndexes |->
                                IF s = 1 THEN -1 - i ELSE 150 * s + i],
     signal_per_spad    |-> [i \in TargetIndexes |-> 70000 * s + i],
     range_sigma_mm     |-> [i \in TargetIndexes |-> 257 * s + i],
     nb_target_detected |-> [z \in ZoneIndexes |->
                                (s + z) % (NbTargetPerZone + 1)],
     ambient_per_spad   |-> [z \in ZoneIndexes |-> 1000 * s + z],
     nb_spads_enabled   |-> [z \in ZoneIndexes |-> 256 * s + z]]

Seeds == 0 .. MaxSeed
Frames == {FrameOf(s) : s \in Seeds}

----------------------------------------------------------------------------
(* Construction *)

NoOp == [name |-> "construct", args |-> <<>>, calls |-> <<>>, msg |-> NoMsg,
         ret |-> 0]

\* VL53L5cx::VL53L5cx and VL53L5cxAutonomous::VL53L5cxAutonomous: pure data
\* capture.  _results is not initialised by either constructor.
Construct(freqs, frames) ==
    /\ variant \in {"VL53L5cx", "VL53L5cxAutonomous"}
    /\ _lpn_pin \in LpnPins
    /\ _dev \in [address : Addresses]
    /\ _resolution \in {RESOLUTION_4X4, RESOLUTION_8X8}
    /\ _target_order \in {TARGET_ORDER_STRONGEST, TARGET_ORDER_CLOSEST}
    /\ _ranging_frequency \in freqs
    /\ _integration_time_msec \in
           (IF variant = "VL53L5cx" THEN {0} ELSE IntegrationTimes)
    /\ _results \in frames
    /\ pc = "constructed"
    /\ op = NoOp

InitSetup == Construct(UInt8, {FrameOf(0)})

NextSetup == begin

\* Setup alone, over every ranging frequency a uint8_t can hold.
SpecSetup == InitSetup /\ [][NextSetup]_vars

----------------------------------------------------------------------------
(* Polling and reading the frame *)

\* Variant of isReady that fetches a frame whatever is_ready says.
isReady_AlwaysFetch(results, d) ==
    LET r1 == Call(NewRun, "vl53l5cx_check_data_ready", <<d.is_ready>>,
                   d.check)
    IN  [run |-> Call(r1, "vl53l5cx_get_ranging_data", <<d.seed>>, d.data),
         results |-> FrameOf(d.seed), ret |-> 1]

\* d: what the driver answers (is_ready, the two statuses, and the frame it
\* writes, named by its seed).  Neither status is looked at.
isReady(results, d) ==
    LET r1 == Call(NewRun, "vl53l5cx_check_data_ready", <<d.is_ready>>,
                   d.check)
    IN  IF d.is_ready # 0
        THEN [run |-> Call(r1, "vl53l5cx_get_ranging_data", <<d.seed>>,
                           d.data),
              results |-> FrameOf(d.seed), ret |-> 1]
        ELSE [run |-> r1, results |-> results, ret |-> 0]

PollAnswers ==
    [is_ready : {0, 1}, check : DriverStatus, data : DriverStatus,
     seed : Seeds]

IsReady ==
    /\ pc = "running"
    /\ \E d \in PollAnswers :
          LET o == isReady(_results, d)
          IN  /\ _results' = o.results
              /\ op' = Done("isReady", <<>>, o.run, o.ret)
              /\ pc' = After(o.run)
    /\ UNCHANGED config

getTargetStatus(zone, target) ==
    ToUint8(_results.target_status[NbTargetPerZone * zone + target])

getDistance(zone, target) ==
    ToUint8(_results.distance_mm[NbTargetPerZone * zone + target])

getSignalPerSpad(zone, target) ==
    ToUint8(_results.signal_per_spad[NbTargetPerZone * zone + target])

getRangeSigma(zone, target) ==
    ToUint8(_results.range_sigma_mm[NbTargetPerZone * zone + target])

getNbTargetDetected(zone) == ToUint8(_results.nb_target_detected[zone])

getAmbientPerSpad(zone) == ToUint8(_results.ambient_per_spad[zone])

getNbSpadsEnabled(zone) == ToUint8(_results.nb_spads_enabled[zone])

----------------------------------------------------------------------------
(* Other driver commands *)

stop(r, status) == Call(r, "vl53l5cx_stop_ranging", <<>>, status)

Stop ==
    /\ pc = "running"
    /\ \E status \in DriverStatus :
          LET r == stop(NewRun, status)
          IN  /\ op' = Done("stop", <<>>, r, 0)
              /\ pc' = After(r)
    /\ UNCHANGED <<config, _results>>

getIntegrationTimeMsec(r, status, time) ==
    checkStatus(Call(r, "vl53l5cx_get_integration_time_ms", <<time>>, status),
                status, MsgIntegrationTime)

GetIntegrationTimeMsec ==
    /\ pc = "running"
    /\ \E status \in DriverStatus, time \in IntegrationTimes :
          LET r == getIntegrationTimeMsec(NewRun, status, time)
          IN  /\ op' = Done("getIntegrationTimeMsec", <<>>, r,
                            IF r.halted THEN 0 ELSE time)
              /\ pc' = After(r)
    /\ UNCHANGED <<config, _results>>

\* distanceMax - distanceMin is only evaluated once distanceMax >= distanceMin
\* is known, so the subtraction never wraps.
addMotionIndicator(r, distanceMin, distanceMax, d) ==
    LET r1 == checkStatus(
                  Call(r, "vl53l5cx_motion_indicator_init",
                       <<IF _resolution = RESOLUTION_4X4
                         THEN VL53L5CX_RESOLUTION_4X4
                         ELSE VL53L5CX_RESOLUTION_8X8>>, d.init),
                  d.init, MsgMotionInit)
        r2 == bozoFilter(r1, distanceMin < 400, MsgMotionMin)
        r3 == bozoFilter(r2, distanceMax < distanceMin, MsgMotionMax)
        r4 == bozoFilter(r3, distanceMax - distanceMin > 1500, MsgMotionDelta)
        r5 == checkStatus(
                  Call(r4, "vl53l5cx_motion_indicator_set_distance_motion",
                       <<distanceMin, distanceMax>>, d.set),
                  d.set, MsgMotionSet)
    IN  IF distanceMin > 0 /\ distanceMax > 0 THEN r5 ELSE r1

\* Distances a caller may pass: 0 and the edges of the three checks.
MotionDistances == {0, 399, 400, 401, 1000, 2500, 2501}

AddMotionIndicator ==
    /\ pc = "running"
    /\ \E distanceMin \in MotionDistances, distanceMax \in MotionDistances,
          d \in [init : DriverStatus, set : DriverStatus] :
          LET r == addMotionIndicator(NewRun, distanceMin, distanceMax, d)
          IN  /\ op' = Done("addMotionIndicator",
                            <<distanceMin, distanceMax>>, r, 0)
              /\ pc' = After(r)
    /\ UNCHANGED <<config, _results>>

calibrateXtalk(r, reflectancePercent, samples, distance, status) ==
    LET r1 == rangeFilter(r, reflectancePercent, 1, 99, "Reflectance perecent")
        r2 == rangeFilter(r1, samples, 1, 16, "Number of samples")
        r3 == rangeFilter(r2, distance, 600, 3000, "Distance")
    IN  checkStatus(
            Call(r3, "vl53l5cx_calibrate_xtalk",
                 <<reflectancePercent, samples, distance>>, status),
            status, MsgXtalk)

Reflectances == {0, 1, 99, 100}
SampleCounts == {0, 1, 16, 17}
XtalkDistances == {599, 600, 3000, 3001}

CalibrateXtalk ==
    /\ pc = "running"
    /\ \E reflectancePercent \in Reflectances, samples \in SampleCounts,
          distance \in XtalkDistances, status \in DriverStatus :
          LET r == calibrateXtalk(NewRun, reflectancePercent, samples,
                                  distance, status)
          IN  /\ op' = Done("calibrateXtalk",
                            <<reflectancePercent, samples, distance>>, r, 0)
              /\ pc' = After(r)
    /\ UNCHANGED <<config, _results>>

getXtalkCalibrationData(r, status) ==
    Call(r, "vl53l5cx_get_caldata_xtalk", <<>>, status)

GetXtalkCalibrationData ==
    /\ pc = "running"
    /\ \E status \in DriverStatus :
          LET r == getXtalkCalibrationData(NewRun, status)
          IN  /\ op' = Done("getXtalkCalibrationData", <<>>, r, 0)
              /\ pc' = After(r)
    /\ UNCHANGED <<config, _results>>

\* The body is empty.
setXtalkCalibrationData(r) == r

SetXtalkCalibrationData ==
    /\ pc = "running"
    /\ LET r == setXtalkCalibrationData(NewRun)
       IN  /\ op' = Done("setXtalkCalibrationData", <<>>, r, 0)
           /\ pc' = After(r)
    /\ UNCHANGED <<config, _results>>

----------------------------------------------------------------------------
(* The facade in use: constructed, set up once, then polled and commanded. *)

Init == Construct(Frequencies, Frames)

Next ==
    \/ begin
    \/ IsReady
    \/ Stop
    \/ GetIntegrationTimeMsec
    \/ AddMotionIndicator
    \/ CalibrateXtalk
    \/ GetXtalkCalibrationData
    \/ SetXtalkCalibrationData

Spec == Init /\ [][Next]_vars

----------------------------------------------------------------------------
(* Vocabulary of the properties *)

Issued(name) == \E i \in DOMAIN op.calls : op.calls[i].name = name

CallNames == [i \in DOMAIN op.calls |-> op.calls[i].name]

\* The documented limit of the ranging frequency for a resolution.
MaxFrequency(resolution) == IF resolution = RESOLUTION_4X4 THEN 60 ELSE 15

FrequencyInRange ==
    /\ 1 <= _ranging_frequency
    /\ _ranging_frequency <= MaxFrequency(_resolution)

\* The documented validity of a motion-indicator distance window.
WindowInvalid(distanceMin, distanceMax) ==
    \/ distanceMin < 400
    \/ distanceMax <= distanceMin
    \/ distanceMax - distanceMin > 1500

\* The documented validity of the cross-talk calibration arguments.
XtalkInRange(reflectancePercent, samples, distance) ==
    /\ 1 <= reflectancePercent /\ reflectancePercent <= 99
    /\ 1 <= samples /\ samples <= 16
    /\ 600 <= distance /\ distance <= 3000

MotionMsgs == {MsgMotionMin, MsgMotionMax, MsgMotionDelta}

ZonesOf(resolution) ==
    IF resolution = RESOLUTION_4X4
    THEN VL53L5CX_RESOLUTION_4X4
    ELSE VL53L5CX_RESOLUTION_8X8

\* The ranging frequencies pushed to the driver by the last method.
FrequencyPushes ==
    SelectSeq(op.calls,
              LAMBDA c : c.name = "vl53l5cx_set_ranging_frequency_hz")

----------------------------------------------------------------------------
(* C1: for every resolution, begin() with a ranging frequency f,           *)
(* 1 <= f <= max (60 for 4x4, 15 for 8x8), does not take the fatal         *)
(* frequency path and goes on to the reset pulse and the liveness probe.   *)
(* The code applies both limits to every resolution, so this fails for     *)
(* 4x4 with 16 <= f <= 60.                                                 *)
C1_FrequencyInRangeAccepted ==
    (op.name = "begin" /\ FrequencyInRange) =>
        /\ op.msg # MsgFrequency
        /\ Issued("Reset_Sensor")
        /\ Issued("vl53l5cx_is_alive")

(* C2: for every resolution, begin() with frequency 0 or above the         *)
(* resolution's maximum ends in the fatal halt and never starts ranging.   *)
C2_FrequencyOutOfRangeHalts ==
    (op.name = "begin" /\ ~FrequencyInRange) =>
        /\ pc = "halted"
        /\ op.msg = MsgFrequency
        /\ ~Issued("vl53l5cx_start_ranging")

C2_Witness ==
    /\ op.name = "begin"
    /\ _resolution = RESOLUTION_4X4
    /\ _ranging_frequency = 61
    /\ pc = "halted"

(* C3: a poll for which the driver reports no new frame returns false and  *)
(* leaves the whole frame buffer unchanged; a poll for which it reports a  *)
(* new frame returns true with the buffer replaced by the driver's frame;  *)
(* no other method writes the buffer, so the buffer is always the frame of *)
(* the most recent poll that returned true.                                *)
C3_PollKeepsOrReplacesFrame ==
    [][IF op'.name = "isReady"
       THEN /\ op'.calls[1].name = "vl53l5cx_check_data_ready"
            /\ IF op'.calls[1].args[1] = 0
               THEN /\ op'.ret = 0
                    /\ Len(op'.calls) = 1
                    /\ _results' = _results
               ELSE /\ op'.ret = 1
                    /\ Len(op'.calls) = 2
                    /\ op'.calls[2].name = "vl53l5cx_get_ranging_data"
                    /\ _results' = FrameOf(op'.calls[2].args[1])
       ELSE _results' = _results]_vars

C3_Witness ==
    /\ op.name = "isReady"
    /\ op.ret = 1
    /\ Len(op.calls) = 2
    /\ op.calls[2].args[1] = 2
    /\ _results = FrameOf(2)

(* C4: after a successful poll, for every zone and target index within the *)
(* configured resolution each accessor returns exactly the value of its    *)
(* field in the frame buffer.  The accessors return uint8_t, so this fails *)
(* for any 16- or 32-bit field value outside 0..255.                       *)
C4_AccessorsReturnFields ==
    (op.name = "isReady" /\ op.ret = 1) =>
        \A zone \in 0 .. (ZonesOf(_resolution) - 1) :
            /\ getNbTargetDetected(zone) = _results.nb_target_detected[zone]
            /\ getAmbientPerSpad(zone) = _results.ambient_per_spad[zone]
            /\ getNbSpadsEnabled(zone) = _results.nb_spads_enabled[zone]
            /\ \A target \in 0 .. (NbTargetPerZone - 1) :
                  LET i == NbTargetPerZone * zone + target
                  IN  /\ getTargetStatus(zone, target)
                            = _results.target_status[i]
                      /\ getDistance(zone, target) = _results.distance_mm[i]
                      /\ getSignalPerSpad(zone, target)
                            = _results.signal_per_spad[i]
                      /\ getRangeSigma(zone, target)
                            = _results.range_sigma_mm[i]

(* C5: addMotionIndicator with both bounds non-zero halts without pushing  *)
(* the window when distanceMin < 400, distanceMax <= distanceMin or        *)
(* distanceMax - distanceMin > 1500; every other non-zero pair passes      *)
(* validation and is pushed as (distanceMin, distanceMax).  The code       *)
(* tests distanceMax < distanceMin, so an equal pair is pushed.            *)
C5_MotionWindowValidated ==
    (op.name = "addMotionIndicator" /\ op.args[1] > 0 /\ op.args[2] > 0) =>
        IF WindowInvalid(op.args[1], op.args[2])
        THEN /\ pc = "halted"
             /\ ~Issued("vl53l5cx_motion_indicator_set_distance_motion")
        ELSE /\ op.msg \notin MotionMsgs
             /\ op.calls[1].status = 0 =>
                   /\ Len(op.calls) = 2
                   /\ op.calls[2].name
                        = "vl53l5cx_motion_indicator_set_distance_motion"
                   /\ op.calls[2].args = op.args

(* C6: calibrateXtalk calls the driver's calibration if and only if        *)
(* reflectancePercent is in [1,99], samples in [1,16] and distance in      *)
(* [600,3000]; otherwise it halts without any driver call.                 *)
C6_XtalkCalledIffInRange ==
    (op.name = "calibrateXtalk") =>
        IF XtalkInRange(op.args[1], op.args[2], op.args[3])
        THEN /\ Len(op.calls) = 1
             /\ op.calls[1].name = "vl53l5cx_calibrate_xtalk"
             /\ op.calls[1].args = op.args
             /\ op.msg # MsgRange
        ELSE /\ op.calls = <<>>
             /\ pc = "halted"
             /\ op.msg = MsgRange

C6_Witness ==
    /\ op.name = "calibrateXtalk"
    /\ op.args = <<99, 16, 3000>>
    /\ Issued("vl53l5cx_calibrate_xtalk")
    /\ pc = "running"

(* C7: in begin, addMotionIndicator and calibrateXtalk, invalid parameters *)
(* lead to the fatal halt before any driver call or reset pulse of that    *)
(* method.  addMotionIndicator calls the driver's motion-indicator init    *)
(* before it validates the window.                                         *)
C7_ConfigurationErrorBeforeDriver ==
    LET invalid ==
            \/ op.name = "begin" /\ ~FrequencyInRange
            \/ /\ op.name = "addMotionIndicator"
               /\ op.args[1] > 0 /\ op.args[2] > 0
               /\ WindowInvalid(op.args[1], op.args[2])
            \/ /\ op.name = "calibrateXtalk"
               /\ ~XtalkInRange(op.args[1], op.args[2], op.args[3])
    IN  invalid => (pc = "halted" /\ op.calls = <<>>)

(* C8: every driver call other than stop-ranging and the integration-time  *)
(* push that returns a non-zero status is the last call of its method,     *)
(* which halts.  The statuses of set-resolution, set-target-order,         *)
(* check-data-ready, get-ranging-data and get-caldata-xtalk are not read.  *)
C8_DriverErrorHalts ==
    \A i \in DOMAIN op.calls :
        ( /\ op.calls[i].status # 0
          /\ op.calls[i].name \notin {"vl53l5cx_stop_ranging",
                                      "vl53l5cx_set_integration_time_ms"} )
        => (pc = "halted" /\ i = Len(op.calls))

(* C9: an autonomous begin() that reaches start-ranging issued: reset,     *)
(* liveness probe, driver init, set-resolution, set-target-order,          *)
(* set-ranging-mode(autonomous), set-integration-time, start-ranging, in   *)
(* that order; an error of set-ranging-mode stops the method there; an     *)
(* error of the integration-time push does not prevent start-ranging.      *)
C9_AutonomousSetupOrder ==
    (variant = "VL53L5cxAutonomous" /\ op.name = "begin") =>
        /\ Issued("vl53l5cx_start_ranging") =>
              CallNames = <<"Reset_Sensor", "vl53l5cx_is_alive",
                            "vl53l5cx_init", "vl53l5cx_set_resolution",
                            "vl53l5cx_set_target_order",
                            "vl53l5cx_set_ranging_mode",
                            "vl53l5cx_set_integration_time_ms",
                            "vl53l5cx_start_ranging">>
        /\ \A i \in DOMAIN op.calls :
              /\ ( /\ op.calls[i].name = "vl53l5cx_set_ranging_mode"
                   /\ op.calls[i].status # 0 )
                 => (i = Len(op.calls) /\ pc = "halted")
              /\ op.calls[i].name = "vl53l5cx_set_ranging_mode"
                 => op.calls[i].args = <<VL53L5CX_RANGING_MODE_AUTONOMOUS>>
              /\ op.calls[i].name = "vl53l5cx_set_integration_time_ms"
                 => /\ op.calls[i].args = <<_integration_time_msec>>
                    /\ i < Len(op.calls)
                    /\ op.calls[i + 1].name = "vl53l5cx_start_ranging"

C9_Witness ==
    /\ variant = "VL53L5cxAutonomous"
    /\ op.name = "begin"
    /\ Len(op.calls) = 8
    /\ op.calls[7].name = "vl53l5cx_set_integration_time_ms"
    /\ op.calls[7].status # 0
    /\ op.calls[8].name = "vl53l5cx_start_ranging"
    /\ pc = "running"

(* C10: no begin(), base or autonomous, pushes a ranging frequency to the  *)
(* driver: the driver keeps the frequency its initialization left.         *)
C10_FrequencyNeverApplied ==
    (op.name = "begin") => FrequencyPushes = <<>>

C10_Witness ==
    /\ op.name = "begin"
    /\ _ranging_frequency = 15
    /\ Issued("vl53l5cx_start_ranging")
    /\ pc = "running"
    /\ FrequencyPushes = <<>>

====
